---- MODULE Spec2Model ----
(***************************************************************************)
(* Model of src/GenAI_2_02.py: TranslationImprover and its iterative      *)
(* back-translation loop.                                                  *)
(*                                                                         *)
(* Text.  A Python str is modelled as a sequence of tokens.  A token is    *)
(* either one of the delimiters ":", " ", "\n", "\"" or a word, a maximal  *)
(* run of characters holding no delimiter.  split, strip and startswith    *)
(* are computed on that sequence as Python computes them on characters.    *)
(*                                                                         *)
(* Floats.  A float is a record [nan, v]: v is the value in hundredths,    *)
(* nan says the value is IEEE NaN (every ordered comparison with it is     *)
(* false).                                                                 *)
(*                                                                         *)
(* Calls.  A call that may raise yields [raised |-> BOOLEAN, value |-> _]. *)
(***************************************************************************)
EXTENDS Integers, Sequences, FiniteSets, TLC

(* ------------------------------ bounds --------------------------------- *)

\* Largest max_iterations a run is started with.
MaxIterations == 3

\* Largest number of lines in a service response given to compare_translations.
MaxLines == 2

(* ------------------------------- text ---------------------------------- *)

Whitespace == {" ", "\n"}

\* str.strip(): leading and trailing whitespace removed.
RECURSIVE LStrip(_)
LStrip(s) ==
    IF s # <<>> /\ Head(s) \in Whitespace THEN LStrip(Tail(s)) ELSE s

RECURSIVE RStrip(_)
RStrip(s) ==
    IF s # <<>> /\ s[Len(s)] \in Whitespace
    THEN RStrip(SubSeq(s, 1, Len(s) - 1))
    ELSE s

Strip(s) == RStrip(LStrip(s))

\* str.split(d): the pieces between the occurrences of the delimiter d.
RECURSIVE Split(_, _)
Split(s, d) ==
    IF \A i \in 1..Len(s) : s[i] # d
    THEN <<s>>
    ELSE LET i == CHOOSE k \in 1..Len(s) :
                      s[k] = d /\ \A j \in 1..(k - 1) : s[j] # d
         IN  <<SubSeq(s, 1, i - 1)>> \o Split(SubSeq(s, i + 1, Len(s)), d)

\* str.split(d, 1): at most one cut, at the first occurrence of d.
SplitOnce(s, d) ==
    IF \A i \in 1..Len(s) : s[i] # d
    THEN <<s>>
    ELSE LET i == CHOOSE k \in 1..Len(s) :
                      s[k] = d /\ \A j \in 1..(k - 1) : s[j] # d
         IN  <<SubSeq(s, 1, i - 1), SubSeq(s, i + 1, Len(s))>>

\* str.startswith(p).
StartsWith(s, p) == Len(s) >= Len(p) /\ SubSeq(s, 1, Len(p)) = p

\* "\n".join(lines).
RECURSIVE JoinLines(_)
JoinLines(ls) ==
    IF ls = <<>> THEN <<>>
    ELSE IF Len(ls) = 1 THEN ls[1]
    ELSE ls[1] \o <<"\n">> \o JoinLines(Tail(ls))

(* ------------------------------ floats --------------------------------- *)

Float(h) == [nan |-> FALSE, v |-> h]

NaN == [nan |-> TRUE, v |-> 0]

\* a >= b on floats: false as soon as one side is NaN.
GE(a, b) == ~a.nan /\ ~b.nan /\ a.v >= b.v

\* The numerals of the model and the float each denotes.
Numeral ==
    [w \in {"0.1", "0.42", "0.7", "0.9", "1.0", "5", "-1", "nan"} |->
        CASE w = "0.1"  -> Float(10)
          [] w = "0.42" -> Float(42)
          [] w = "0.7"  -> Float(70)
          [] w = "0.9"  -> Float(90)
          [] w = "1.0"  -> Float(100)
          [] w = "5"    -> Float(500)
          [] w = "-1"   -> Float(-100)
          [] w = "nan"  -> NaN]

\* float(s): s with surrounding whitespace ignored must be one numeral; anything
\* else raises ValueError.
float(s) ==
    LET t == Strip(s)
    IN  IF Len(t) = 1 /\ t[1] \in DOMAIN Numeral
        THEN [raised |-> FALSE, value |-> Numeral[t[1]]]
        ELSE [raised |-> TRUE, value |-> NaN]

(* ------------------------- source literals ----------------------------- *)

\* 'SIMILARITY:' and 'SUGGESTIONS:' (lines 139, 144).
SIMILARITY_PREFIX == <<"SIMILARITY", ":">>

SUGGESTIONS_PREFIX == <<"SUGGESTIONS", ":">>

\* "No specific suggestions available." (line 135).
DEFAULT_SUGGESTIONS ==
    <<"No", " ", "specific", " ", "suggestions", " ", "available.">>

\* The default score 0.5 (lines 134, 154).
DEFAULT_SCORE == Float(50)

\* "Error occurred during comparison: " (line 154), before str(e).
COMPARISON_ERROR ==
    <<"Error", " ", "occurred", " ", "during", " ", "comparison", ":", " ">>

\* The fallback's similarity answer (line 95).
FALLBACK_SIMILARITY ==
    <<"SIMILARITY", ":", " ", "0.7", "\n",
      "SUGGESTIONS", ":", " ", "Consider", " ", "improving", " ", "word", " ",
      "choice", " ", "and", " ", "sentence", " ", "structure.">>

\* The fallback's apology (line 104).
FALLBACK_APOLOGY ==
    <<"I'm", " ", "sorry,", " ", "I", " ", "cannot", " ", "process", " ",
      "this", " ", "request", " ", "at", " ", "the", " ", "moment.">>

\* str(e) of the AttributeError raised by looking up self._fallback_response.
ATTRIBUTE_ERROR ==
    <<"'TranslationImprover'", " ", "object", " ", "has", " ", "no", " ",
      "attribute", " ", "'_fallback_response'">>

\* str(e) of any other exception caught at line 80; only printed.
REQUEST_ERROR == <<"request", " ", "failed">>

(* ------------------------------ prompts -------------------------------- *)

\* The f-string prompts of lines 117-128 and 168-175, kept as the template's
\* kind and the texts embedded in it.
ComparePrompt(original, back_translated) ==
    [kind |-> "compare", original |-> original, text |-> back_translated,
     suggestions |-> <<>>]

ImprovePrompt(original_en_, current_ru_, suggestions_) ==
    [kind |-> "improve", original |-> original_en_, text |-> current_ru_,
     suggestions |-> suggestions_]

\* str.strip('"').
RECURSIVE StripQuotes(_)
StripQuotes(s) ==
    IF s # <<>> /\ Head(s) = "\"" THEN StripQuotes(Tail(s))
    ELSE IF s # <<>> /\ s[Len(s)] = "\"" THEN StripQuotes(SubSeq(s, 1, Len(s) - 1))
    ELSE s

\* fallback_response (lines 84-104).  "similarity score" is in the compare
\* template (line 123); "Improve" and "Russian" are in the improve template
\* (line 168), whose CURRENT RUSSIAN line ends at the text's first newline, so
\* the greeting of line 102 is never returned for a prompt this class builds.
\* The texts of the model hold neither marker themselves.
fallback_response(prompt) ==
    IF prompt.kind = "compare" THEN FALLBACK_SIMILARITY
    ELSE IF prompt.kind = "improve"
    THEN LET line == Split(<<" ", "\"">> \o prompt.text \o <<"\"">>, "\n")[1]
         IN  StripQuotes(Strip(line))
    ELSE FALLBACK_APOLOGY

\* self._fallback_response(prompt) (lines 61, 78, 82): the class defines
\* fallback_response (line 84) and no _fallback_response, so the attribute
\* lookup raises AttributeError before anything is called.
self_fallback_response(prompt) ==
    [raised |-> TRUE, value |-> ATTRIBUTE_ERROR]

(* ------------------------- improvement service ------------------------- *)

\* What requests.post and the body of the answer can be (lines 71-75):
\*   post_raised  the request raised (timeout, connection error);
\*   status_code  the HTTP status;
\*   json         "invalid": response.json() raises;
\*                "no_choices": no "choices" key, the default [{}] is used;
\*                "empty_choices": "choices" is [], so [0] raises IndexError;
\*                "null_content": content is null, so .strip() raises;
\*                "content": content is the string `content`.
Http(post_raised, status_code, json, content) ==
    [post_raised |-> post_raised, status_code |-> status_code,
     json |-> json, content |-> content]

\* The service is unavailable: no token, a failed request, or a non-200 answer.
Unavailable(tok, http) ==
    ~tok \/ http.post_raised \/ http.status_code # 200

\* The try block of lines 63-78.
TryRequest(prompt, http) ==
    IF http.post_raised THEN [raised |-> TRUE, value |-> REQUEST_ERROR]
    ELSE IF http.status_code = 200
    THEN CASE http.json = "content" ->
                [raised |-> FALSE, value |-> Strip(http.content)]
           [] http.json = "no_choices" ->
                [raised |-> FALSE, value |-> Strip(<<>>)]
           [] OTHER -> [raised |-> TRUE, value |-> REQUEST_ERROR]
    ELSE self_fallback_response(prompt)

\* _call_gigachat (lines 49-82).
call_gigachat(tok, prompt, http) ==
    IF ~tok THEN self_fallback_response(prompt)
    ELSE LET r == TryRequest(prompt, http)
         IN  IF r.raised THEN self_fallback_response(prompt) ELSE r

(* --------------------------- compare / improve ------------------------- *)

SimilarityOf_FirstWins(line, score) ==
    LET f == float(Strip(Split(line, ":")[2]))
    IN  IF f.raised \/ score # DEFAULT_SCORE THEN score ELSE f.value

\* The score a 'SIMILARITY:' line sets (lines 139-143): the text between the
\* first and the second colon; a ValueError leaves the score as it was.
SimilarityOf(line, score) ==
    LET f == float(Strip(Split(line, ":")[2]))
    IN  IF f.raised THEN score ELSE f.value

\* The suggestions a 'SUGGESTIONS:' line sets (lines 144-148).
SuggestionsOf(line) == Strip(SplitOnce(line, ":")[2])

\* The for loop of lines 138-148 over the lines from index i on.
RECURSIVE ParseLines(_, _, _, _)
ParseLines(lines, i, score, suggestions) ==
    IF i > Len(lines)
    THEN [similarity_score |-> score, improvement_suggestions |-> suggestions]
    ELSE IF StartsWith(lines[i], SIMILARITY_PREFIX)
    THEN ParseLines(lines, i + 1, SimilarityOf(lines[i], score), suggestions)
    ELSE IF StartsWith(lines[i], SUGGESTIONS_PREFIX)
    THEN ParseLines(lines, i + 1, score, SuggestionsOf(lines[i]))
    ELSE ParseLines(lines, i + 1, score, suggestions)

\* Lines 133-150 on the string _call_gigachat returned.
ParseResponse(result) ==
    ParseLines(Split(result, "\n"), 1, DEFAULT_SCORE, DEFAULT_SUGGESTIONS)

\* compare_translations (lines 106-154).
compare_translations(tok, original, back_translated, http) ==
    LET call == call_gigachat(tok, ComparePrompt(original, back_translated), http)
    IN  IF call.raised
        THEN [similarity_score |-> DEFAULT_SCORE,
              improvement_suggestions |-> COMPARISON_ERROR \o call.value]
        ELSE ParseResponse(call.value)

ImproveFailed_Reraise(current_ru_) == [raised |-> TRUE, value |-> current_ru_]

\* The except branch of improve_russian_translation (lines 181-183).
ImproveFailed(current_ru_) == [raised |-> FALSE, value |-> current_ru_]

\* improve_russian_translation (lines 156-183).
improve_russian_translation(tok, original, current_ru_, suggestions_, http) ==
    LET call == call_gigachat(tok, ImprovePrompt(original, current_ru_, suggestions_), http)
    IN  IF call.raised
        THEN ImproveFailed(current_ru_)
        ELSE [raised |-> FALSE, value |-> Strip(call.value)]

(* ------------------------- translation engine -------------------------- *)

\* translate_en and translate_ru of the translator module: the text must be
\* non-empty after trimming, and the engine either fails or answers.
translate_en(text, answer) ==
    IF Strip(text) = <<>> THEN [raised |-> TRUE, value |-> <<>>] ELSE answer

translate_ru(text, answer) ==
    IF Strip(text) = <<>> THEN [raised |-> TRUE, value |-> <<>>] ELSE answer

(* ------------------------------- inputs -------------------------------- *)

HELLO == <<"Hello,", " ", "how", " ", "are", " ", "you">>

PRIVET == <<"Privet,", " ", "kak", " ", "dela">>

\* original_en, valid (non-empty) or empty.
Originals == {HELLO, <<>>}

\* similarity_threshold, in hundredths: 0.0, the default 0.9, and 1.0.
Thresholds == {Float(0), Float(90), Float(100)}

\* What the engine can do with a call of translate_en / translate_ru.
Failure == [raised |-> TRUE, value |-> <<>>]

EnAnswers == {Failure, [raised |-> FALSE, value |-> PRIVET]}

RuAnswers ==
    {Failure, [raised |-> FALSE, value |-> HELLO],
     [raised |-> FALSE, value |-> <<"Hi,", " ", "how", " ", "are", " ", "you">>]}

\* The ways the service can fail to give a usable answer.
FailedHttp ==
    {Http(TRUE, 0, "invalid", <<>>), Http(FALSE, 500, "invalid", <<>>),
     Http(FALSE, 200, "invalid", <<>>), Http(FALSE, 200, "empty_choices", <<>>),
     Http(FALSE, 200, "null_content", <<>>)}

\* The answers the service gives to a compare prompt during a run.
CompareContents ==
    {<<"SIMILARITY", ":", " ", "0.1", "\n", "SUGGESTIONS", ":", " ", "fix", " ", "tense">>,
     <<"SIMILARITY", ":", " ", "1.0">>,
     <<"SIMILARITY", ":", " ", "5">>,
     <<"SIMILARITY", ":", " ", "-1">>,
     <<"SIMILARITY", ":", " ", "nan">>}

\* The answers the service gives to an improve prompt during a run.
ImproveContents ==
    {<<" ", "Zdravstvuyte,", " ", "kak", " ", "vy", "\n">>, <<>>, <<" ", " ">>}

CompareHttp ==
    FailedHttp \cup {Http(FALSE, 200, "content", c) : c \in CompareContents}

ImproveHttp ==
    FailedHttp \cup {Http(FALSE, 200, "no_choices", <<>>)}
               \cup {Http(FALSE, 200, "content", c) : c \in ImproveContents}

\* The lines a service answer is made of when compare_translations is run alone.
Lines ==
    {<<"SIMILARITY", ":", " ", "0.42">>,
     <<"SIMILARITY", ":", " ", "0.9">>,
     <<"SIMILARITY", ":", " ", "abc">>,
     <<"SIMILARITY", ":", " ", "0.1", ":", " ", "low">>,
     <<"SIMILARITY", ":", " ", "5">>,
     <<"SIMILARITY", ":", " ", "nan">>,
     <<" ", "SIMILARITY", ":", " ", "1.0">>,
     <<"SUGGESTIONS", ":", " ", "fix", " ", "tense">>,
     <<"SUGGESTIONS", ":", " ", "a", ":", " ", "b">>,
     <<"The", " ", "texts", " ", "match.">>}

\* Every answer of at most MaxLines lines.
Answers ==
    {JoinLines(ls) : ls \in UNION {[1..n -> Lines] : n \in 0..MaxLines}}

AnswerHttp ==
    FailedHttp \cup {Http(FALSE, 200, "no_choices", <<>>)}
               \cup {Http(FALSE, 200, "content", c) : c \in Answers}

(* -------------------------------- state -------------------------------- *)

VARIABLES
    token,                \* self.token is set (line 33)
    pc,                   \* where the run is
    original_en,          \* arguments of iterative_translation_improvement
    max_iterations,
    similarity_threshold,
    current_ru,           \* locals of iterative_translation_improvement
    iteration,
    back_translated_en,
    similarity_score,
    suggestions,
    results,
    returned,             \* the list the call returned
    failure,              \* the call whose exception left the run
    service,              \* the service's answer when compare_translations is run alone
    ru_args,              \* every text passed to translate_ru, in order
    n_compare,            \* calls of compare_translations
    n_improve,            \* calls of improve_russian_translation
    improved_after,       \* iterations after which improve_russian_translation was called
    improve_raised        \* those of them whose service call raised

vars ==
    <<token, pc, original_en, max_iterations, similarity_threshold, current_ru,
      iteration, back_translated_en, similarity_score, suggestions, results,
      returned, failure, service, ru_args, n_compare, n_improve,
      improved_after, improve_raised>>

NoService == Http(FALSE, 0, "invalid", <<>>)

\* TranslationResult(...) (lines 10-17, 217-224).
TranslationResult(o, ru, back, score, sugg, it) ==
    [original_en |-> o, russian_translation |-> ru, back_translated_en |-> back,
     similarity_score |-> score, improvement_suggestions |-> sugg,
     iteration |-> it]

LoopContinues_OneShort(it, max) == it < max - 1

\* range(max_iterations) has a next value (line 203).
LoopContinues(it, max) == it < max

IterationNumber_ZeroBased(it) == it

\* iteration + 1 (line 223).
IterationNumber(it) == it + 1

ThresholdReached_Strict(score, threshold) ==
    GE(score, threshold) /\ score.v # threshold.v

\* similarity_score >= similarity_threshold (line 228).
ThresholdReached(score, threshold) == GE(score, threshold)

ShouldImprove_AlsoLast(it, max) == it < max

\* iteration < max_iterations - 1 (line 233).
ShouldImprove(it, max) == it < max - 1

\* The state after TranslationImprover(...) (lines 25-47), nothing run yet.
Idle ==
    /\ original_en = <<>>
    /\ max_iterations = 0
    /\ similarity_threshold = Float(0)
    /\ current_ru = <<>>
    /\ iteration = 0
    /\ back_translated_en = <<>>
    /\ similarity_score = DEFAULT_SCORE
    /\ suggestions = <<>>
    /\ results = <<>>
    /\ returned = <<>>
    /\ failure = "none"
    /\ ru_args = <<>>
    /\ n_compare = 0
    /\ n_improve = 0
    /\ improved_after = {}
    /\ improve_raised = {}

Init ==
    /\ token \in BOOLEAN
    /\ pc = "constructed"
    /\ service = NoService
    /\ Idle

ghosts == <<ru_args, n_compare, n_improve, improved_after, improve_raised>>

\* Lines 200-201: the call and the initial translation.
Run(o, m, t, answer) ==
    /\ pc = "constructed"
    /\ original_en' = o
    /\ max_iterations' = m
    /\ similarity_threshold' = t
    /\ results' = <<>>
    /\ LET r == translate_en(o, answer)
       IN  IF r.raised
           THEN /\ pc' = "raised"
                /\ failure' = "translate_en"
                /\ UNCHANGED current_ru
           ELSE /\ pc' = "for"
                /\ current_ru' = r.value
                /\ UNCHANGED failure
    /\ iteration' = 0
    /\ UNCHANGED <<token, back_translated_en, similarity_score, suggestions,
                   returned, service, ghosts>>

\* Lines 203-209: the loop takes its next value and back-translates.
BackTranslate(answer) ==
    /\ pc = "for"
    /\ LoopContinues(iteration, max_iterations)
    /\ ru_args' = Append(ru_args, current_ru)
    /\ LET r == translate_ru(current_ru, answer)
       IN  IF r.raised
           THEN /\ pc' = "raised"
                /\ failure' = "translate_ru"
                /\ UNCHANGED back_translated_en
           ELSE /\ pc' = "compare"
                /\ back_translated_en' = r.value
                /\ UNCHANGED failure
    /\ UNCHANGED <<token, original_en, max_iterations, similarity_threshold,
                   current_ru, iteration, similarity_score, suggestions, results,
                   returned, service, n_compare, n_improve, improved_after,
                   improve_raised>>

\* Lines 211-233: compare, store the result, test the threshold, and decide
\* whether to improve.
Compare(http) ==
    /\ pc = "compare"
    /\ LET c == compare_translations(token, original_en, back_translated_en, http)
       IN  /\ similarity_score' = c.similarity_score
           /\ suggestions' = c.improvement_suggestions
           /\ results' = Append(results,
                  TranslationResult(original_en, current_ru, back_translated_en,
                                    c.similarity_score, c.improvement_suggestions,
                                    IterationNumber(iteration)))
           /\ IF ThresholdReached(c.similarity_score, similarity_threshold)
              THEN pc' = "break" /\ UNCHANGED iteration
              ELSE IF ShouldImprove(iteration, max_iterations)
              THEN pc' = "improve" /\ UNCHANGED iteration
              ELSE pc' = "for" /\ iteration' = iteration + 1
    /\ n_compare' = n_compare + 1
    /\ UNCHANGED <<token, original_en, max_iterations, similarity_threshold,
                   current_ru, back_translated_en, returned, failure, service,
                   ru_args, n_improve, improved_after, improve_raised>>

\* Lines 234-236: improve the Russian text, then the next loop value.
Improve(http) ==
    /\ pc = "improve"
    /\ n_improve' = n_improve + 1
    /\ improved_after' = improved_after \cup {IterationNumber(iteration)}
    /\ improve_raised' =
          IF call_gigachat(token, ImprovePrompt(original_en, current_ru, suggestions), http).raised
          THEN improve_raised \cup {IterationNumber(iteration)}
          ELSE improve_raised
    /\ LET r == improve_russian_translation(token, original_en, current_ru,
                                            suggestions, http)
       IN  IF r.raised
           THEN /\ pc' = "raised"
                /\ failure' = "improve_russian_translation"
                /\ UNCHANGED <<current_ru, iteration>>
           ELSE /\ pc' = "for"
                /\ current_ru' = r.value
                /\ iteration' = iteration + 1
                /\ UNCHANGED failure
    /\ UNCHANGED <<token, original_en, max_iterations, similarity_threshold,
                   back_translated_en, similarity_score, suggestions, results,
                   returned, service, ru_args, n_compare>>

\* Line 238, after the break of line 230 or the end of range(max_iterations).
Return ==
    /\ IF pc = "for"
       THEN ~LoopContinues(iteration, max_iterations)
       ELSE pc = "break"
    /\ pc' = "returned"
    /\ returned' = results
    /\ UNCHANGED <<token, original_en, max_iterations, similarity_threshold,
                   current_ru, iteration, back_translated_en, similarity_score,
                   suggestions, results, failure, service, ghosts>>

Next ==
    \/ \E o \in Originals, m \in 0..MaxIterations, t \in Thresholds,
          answer \in EnAnswers : Run(o, m, t, answer)
    \/ \E answer \in RuAnswers : BackTranslate(answer)
    \/ \E http \in CompareHttp : Compare(http)
    \/ \E http \in ImproveHttp : Improve(http)
    \/ Return

Spec == Init /\ [][Next]_vars

(* ------------------- compare_translations run alone -------------------- *)

InitCompare ==
    /\ token \in BOOLEAN
    /\ pc = "compare_alone"
    /\ service \in AnswerHttp
    /\ Idle

\* One call compare_translations(HELLO, HELLO) against the drawn answer.
CompareAlone ==
    /\ pc = "compare_alone"
    /\ LET c == compare_translations(token, HELLO, HELLO, service)
       IN  /\ similarity_score' = c.similarity_score
           /\ suggestions' = c.improvement_suggestions
    /\ pc' = "compared"
    /\ n_compare' = n_compare + 1
    /\ UNCHANGED <<token, original_en, max_iterations, similarity_threshold,
                   current_ru, iteration, back_translated_en, results, returned,
                   failure, service, ru_args, n_improve, improved_after,
                   improve_raised>>

NextCompare == CompareAlone

SpecCompare == InitCompare /\ [][NextCompare]_vars

(* ------------------------------- claims -------------------------------- *)

\* No element of rs reaches the threshold.
NoneReaches(rs) ==
    \A i \in 1..Len(rs) : ~GE(rs[i].similarity_score, similarity_threshold)

\* C1: for a non-empty original_en and max_iterations >= 1, a returned list has
\* between 1 and max_iterations elements, and its k-th element has iteration k.
C1_LengthAndIndices ==
    (pc = "returned" /\ Strip(original_en) # <<>> /\ max_iterations >= 1) =>
        /\ Len(returned) \in 1..max_iterations
        /\ \A k \in 1..Len(returned) : returned[k].iteration = k

C1_Witness ==
    /\ pc = "returned"
    /\ max_iterations = 3
    /\ Len(returned) = 2
    /\ returned[2].iteration = 2

\* C2: the run stops at the first result that reaches the threshold: that
\* result is the last one, the list returned is the list up to it, and no
\* back-translation, comparison or improvement is made after it.
C2_StopsAtFirstReached ==
    /\ \A i \in 1..Len(results) :
          GE(results[i].similarity_score, similarity_threshold) =>
              /\ Len(results) = i
              /\ pc \in {"break", "returned"}
              /\ Len(ru_args) = i
              /\ n_compare = i
              /\ n_improve = i - 1
    /\ pc = "returned" => returned = results

C2_Witness ==
    /\ pc = "returned"
    /\ max_iterations = 3
    /\ Len(returned) = 2
    /\ GE(returned[2].similarity_score, similarity_threshold)
    /\ n_improve = 1

\* C3: a returned list none of whose elements reaches the threshold has
\* exactly max_iterations elements.
C3_ExhaustedHasMaxIterations ==
    (pc = "returned" /\ NoneReaches(returned)) =>
        Len(returned) = max_iterations

C3_Witness ==
    /\ pc = "returned"
    /\ max_iterations = 3
    /\ Len(returned) = 3
    /\ NoneReaches(returned)

\* C4: improve_russian_translation is called after iteration k exactly when
\* that iteration's score does not reach the threshold and k < max_iterations,
\* once each; a run none of whose scores reaches the threshold calls it
\* max_iterations - 1 times.
C4_ImproveExactlyWhenBelowAndNotLast ==
    /\ improved_after \subseteq 1..Len(results)
    /\ n_improve = Cardinality(improved_after)
    /\ \A k \in 1..Len(results) :
          (k \in improved_after \/ (pc = "improve" /\ k = Len(results)))
              <=> (/\ ~GE(results[k].similarity_score, similarity_threshold)
                   /\ k < max_iterations)
    /\ (pc = "returned" /\ max_iterations >= 1 /\ NoneReaches(returned)) =>
          n_improve = max_iterations - 1

C4_Witness ==
    /\ pc = "returned"
    /\ max_iterations = 3
    /\ NoneReaches(returned)
    /\ n_improve = 2
    /\ improved_after = {1, 2}

\* C5: a failure of translate_ru does not end the run with an exception: only
\* a failure of the initial translate_en does.
C5_OnlyInitialTranslationAborts ==
    pc = "raised" => failure = "translate_en"

\* C6: when the service is unavailable (no token, a failed request, a non-200
\* answer), compare_translations yields what the fallback's answer parses to:
\* score 0.7 and the generic suggestion.
C6_UnavailableYieldsFallback ==
    (pc = "compared" /\ Unavailable(token, service)) =>
        [similarity_score |-> similarity_score,
         improvement_suggestions |-> suggestions]
            = ParseResponse(fallback_response(ComparePrompt(HELLO, HELLO)))

\* The string _call_gigachat returned to the lone compare_translations call.
Answered == call_gigachat(token, ComparePrompt(HELLO, HELLO), service)

\* The text of a line after its first colon.
Remainder(line) == SplitOnce(line, ":")[2]

\* The text of a line between its first and its second colon.
Field(line) == Split(line, ":")[2]

\* The score the first 'SIMILARITY:' line of the answer gives by its whole
\* remainder, 0.5 when there is no such line or the remainder is no number.
FirstLineScore(result) ==
    LET lines == Split(result, "\n")
        at == {i \in 1..Len(lines) : StartsWith(lines[i], SIMILARITY_PREFIX)}
    IN  IF at = {} THEN Float(50)
        ELSE LET i == CHOOSE k \in at : \A j \in at : k <= j
                 f == float(Remainder(lines[i]))
             IN  IF f.raised THEN Float(50) ELSE f.value

\* The 'SIMILARITY:' lines of the answer whose field between the first and the
\* second colon is a number.
ParsedAt(result) ==
    LET lines == Split(result, "\n")
    IN  {i \in 1..Len(lines) :
            /\ StartsWith(lines[i], SIMILARITY_PREFIX)
            /\ ~float(Field(lines[i])).raised}

\* The score the last of those lines gives, 0.5 when there is none.
LastParsedScore(result) ==
    LET lines == Split(result, "\n")
        at == ParsedAt(result)
    IN  IF at = {} THEN Float(50)
        ELSE LET i == CHOOSE k \in at : \A j \in at : k >= j
             IN  float(Field(lines[i])).value

\* C7 as claimed: the score is the one the first 'SIMILARITY:' line gives by
\* its whole remainder, 0.5 without such a line or when it is no number.
C7_FirstSimilarityLineDecides ==
    (pc = "compared" /\ ~Answered.raised) =>
        similarity_score = FirstLineScore(Answered.value)

\* C7 as amended: the score is the one the last 'SIMILARITY:' line gives whose
\* text between its first and second colon is a number, 0.5 without one.
C7_LastParsedSimilarityLineDecides ==
    (pc = "compared" /\ ~Answered.raised) =>
        similarity_score = LastParsedScore(Answered.value)

C7_Witness ==
    /\ pc = "compared"
    /\ ~Answered.raised
    /\ Cardinality(ParsedAt(Answered.value)) = 2
    /\ similarity_score # FirstLineScore(Answered.value)
    /\ similarity_score = Float(90)

\* C8: when the service call of improve_russian_translation raises, the call
\* returns current_ru and raises nothing: the next result has the same
\* russian_translation as the one before.
C8_FailedImproveKeepsRussian ==
    \A k \in improve_raised :
        /\ failure # "improve_russian_translation"
        /\ k <= Len(results)
        /\ Len(results) = k => current_ru = results[k].russian_translation
        /\ Len(results) > k =>
              results[k + 1].russian_translation = results[k].russian_translation

C8_Witness ==
    \E k \in improve_raised :
        /\ Len(results) > k
        /\ results[k + 1].russian_translation = results[k].russian_translation
        /\ token

\* C9: every similarity_score stored in a result lies in [0.0, 1.0].
C9_ScoresInUnitInterval ==
    \A i \in 1..Len(results) :
        /\ ~results[i].similarity_score.nan
        /\ results[i].similarity_score.v \in 0..100

\* C10: every text passed to translate_ru is non-empty after trimming.
C10_BackTranslatedTextNonEmpty ==
    \A i \in 1..Len(ru_args) : Strip(ru_args[i]) # <<>>

====
